---- MODULE Spec2Model ----
(***************************************************************************)
(* Model of packages/snaps-utils/src/types.ts: the structs that validate   *)
(* a Snap's package.json (VersionStruct, NameStruct,                       *)
(* NpmSnapPackageJsonStruct), the predicate isNpmSnapPackageJson and the   *)
(* assertion assertIsNpmSnapPackageJson.                                   *)
(*                                                                         *)
(* JavaScript values are records with a `kind`; a string is the sequence   *)
(* of its characters, an object a function from its own keys to values.    *)
(* A struct is modelled by the sequence of failures superstruct's run()    *)
(* yields for a value, in the order it yields them.                        *)
(***************************************************************************)
EXTENDS Integers, Sequences, FiniteSets, TLC

VARIABLES
    arg,          \* the value handed to the call (as the caller built it)
    value,        \* the same value as the callee leaves it
    op,           \* the last call: "none", "is", "assert", "name", "version"
    outcome,      \* what it did: "none", "true", "false", "returned", "threw"
    message,      \* the message of the error it threw, or NoMessage
    lastIndex,    \* lastIndex of the RegExp object inside NameStruct
    semverTrims,  \* whether the installed semver trims before matching
    tracked,      \* SpecCalls: the value whose results are compared
    firstResult,  \* SpecCalls: outcome of the first isNpmSnapPackageJson(tracked)
    lastResult,   \* SpecCalls: outcome of the latest isNpmSnapPackageJson(tracked)
    calls         \* SpecCalls: how many times isNpmSnapPackageJson(tracked) ran

vars == <<arg, value, op, outcome, message, lastIndex, semverTrims,
          tracked, firstResult, lastResult, calls>>

(***************************************************************************)
(* JavaScript values                                                       *)
(***************************************************************************)
Undefined == [kind |-> "undefined"]
Null == [kind |-> "null"]
Num == [kind |-> "number"]
Bool == [kind |-> "boolean"]
Arr == [kind |-> "array"]
TypeError == [kind |-> "TypeError"]
Str(s) == [kind |-> "string", chars |-> s]
Obj(f) == [kind |-> "object", fields |-> f]

\* value[key] as JavaScript evaluates it
Get(v, k) ==
    IF v.kind \in {"null", "undefined"} THEN TypeError
    ELSE IF v.kind = "object" /\ k \in DOMAIN v.fields THEN v.fields[k]
    ELSE Undefined

\* Object.keys(value) restricted to own keys of a plain object
OwnKeys(v) == IF v.kind = "object" THEN DOMAIN v.fields ELSE {}

Lower == {"a","b","c","d","e","f","g","h","i","j","k","l","m",
          "n","o","p","q","r","s","t","u","v","w","x","y","z"}
Upper == {"A","B","C","D","E","F","G","H","I","J","K","L","M",
          "N","O","P","Q","R","S","T","U","V","W","X","Y","Z"}
Digit == {"0","1","2","3","4","5","6","7","8","9"}
Space == {" "}

AllIn(s, C) == \A i \in 1..Len(s) : s[i] \in C

(***************************************************************************)
(* semver's valid(): the FULL regular expression                           *)
(*   ^v?MAIN(?:-PRERELEASE)?(?:\+BUILD)?$                                  *)
(***************************************************************************)
RECURSIVE Split(_, _)
Split(s, sep) ==
    IF \A i \in 1..Len(s) : s[i] # sep THEN <<s>>
    ELSE LET i == CHOOSE k \in 1..Len(s) :
                      s[k] = sep /\ \A m \in 1..(k-1) : s[m] # sep
         IN <<SubSeq(s, 1, i-1)>> \o Split(SubSeq(s, i+1, Len(s)), sep)

\* 0|[1-9]\d*
IsNumericIdentifier(t) ==
    Len(t) >= 1 /\ AllIn(t, Digit) /\ (Len(t) = 1 \/ t[1] # "0")

\* \d*[a-zA-Z-][a-zA-Z0-9-]*
IsNonNumericIdentifier(t) ==
    /\ Len(t) >= 1
    /\ AllIn(t, Digit \cup Lower \cup Upper \cup {"-"})
    /\ \E i \in 1..Len(t) : t[i] \notin Digit

IsPrereleaseIdentifier(t) == IsNumericIdentifier(t) \/ IsNonNumericIdentifier(t)

\* [0-9A-Za-z-]+
IsBuildIdentifier(t) ==
    Len(t) >= 1 /\ AllIn(t, Digit \cup Lower \cup Upper \cup {"-"})

IsMainVersion(t) ==
    LET p == Split(t, ".")
    IN Len(p) = 3 /\ \A i \in 1..3 : IsNumericIdentifier(p[i])

IsPrerelease(t) ==
    LET p == Split(t, ".") IN \A i \in 1..Len(p) : IsPrereleaseIdentifier(p[i])

IsBuild(t) ==
    LET p == Split(t, ".") IN \A i \in 1..Len(p) : IsBuildIdentifier(p[i])

\* the ways s matches FULL: <<a, i, j>> with s = v^a MAIN[a+1..i] PRE[i+1..j] BUILD[j+1..]
FullMatches(s) ==
    { m \in (0..1) \X (0..Len(s)) \X (0..Len(s)) :
        LET a == m[1]
            i == m[2]
            j == m[3]
        IN /\ a <= i /\ i <= j
           /\ (a = 1 => (Len(s) >= 1 /\ s[1] = "v"))
           /\ IsMainVersion(SubSeq(s, a+1, i))
           /\ (i = j \/ (s[i+1] = "-" /\ IsPrerelease(SubSeq(s, i+2, j))))
           /\ (j = Len(s) \/ (s[j+1] = "+" /\ IsBuild(SubSeq(s, j+2, Len(s))))) }

RECURSIVE TrimStart(_)
TrimStart(s) ==
    IF Len(s) >= 1 /\ s[1] \in Space THEN TrimStart(Tail(s)) ELSE s

RECURSIVE TrimEnd(_)
TrimEnd(s) ==
    IF Len(s) >= 1 /\ s[Len(s)] \in Space THEN TrimEnd(SubSeq(s, 1, Len(s)-1)) ELSE s

Trim(s) == TrimEnd(TrimStart(s))

\* valid(version): the normalised version, or null. Releases of semver
\* differ in whether the string is trimmed before it is matched.
validSemver(v, trims) ==
    IF v.kind # "string" THEN Null
    ELSE LET s == IF trims THEN Trim(v.chars) ELSE v.chars
             ms == FullMatches(s)
         IN IF ms = {} THEN Null
            ELSE LET m == CHOOSE x \in ms : TRUE
                 IN Str(SubSeq(s, m[1]+1, m[3]))

(***************************************************************************)
(* The name pattern                                                        *)
(*   /^(?:@[a-z0-9-*~][a-z0-9-*._~]*\/)?[a-z0-9-~][a-z0-9-._~]*$/u         *)
(***************************************************************************)
ScopeFirst == Lower \cup Digit \cup {"-", "*", "~"}
ScopeRest == Lower \cup Digit \cup {"-", "*", ".", "_", "~"}
NameFirstWithStar == Lower \cup Digit \cup {"-", "*", "~"}
NameFirst == Lower \cup Digit \cup {"-", "~"}
NameRest == Lower \cup Digit \cup {"-", ".", "_", "~"}

\* [a-z0-9-*~][a-z0-9-*._~]*
ScopeSegment(t) ==
    Len(t) >= 1 /\ t[1] \in ScopeFirst /\ AllIn(Tail(t), ScopeRest)

\* [a-z0-9-~][a-z0-9-._~]*
NameSegment(t) ==
    Len(t) >= 1 /\ t[1] \in NameFirst /\ AllIn(Tail(t), NameRest)

\* whether the whole of s matches the pattern (^ and $ without the m flag)
NamePattern(s) ==
    \/ NameSegment(s)
    \/ \E i \in 2..Len(s) :
          /\ s[1] = "@"
          /\ s[i] = "/"
          /\ ScopeSegment(SubSeq(s, 2, i-1))
          /\ NameSegment(SubSeq(s, i+1, Len(s)))

NameRegexFlagsGlobal == {"u", "g"}

NameRegexFlags == {"u"}

\* RegExp.prototype.test: <<matched, lastIndex afterwards>>. lastIndex is
\* read and written only under the g or y flag; the pattern starts with ^,
\* so a search that starts after index 0 finds nothing.
RegExpTest(s, li) ==
    IF NameRegexFlags \cap {"g", "y"} = {} THEN <<NamePattern(s), li>>
    ELSE IF li > Len(s) THEN <<FALSE, 0>>
    ELSE IF li = 0 /\ NamePattern(s) THEN <<TRUE, Len(s)>>
    ELSE <<FALSE, 0>>

MinNameLen == 1
MaxNameLen == 214

(***************************************************************************)
(* superstruct: the failures run() yields, in order                        *)
(***************************************************************************)
Failure(path, type, refinement) ==
    [path |-> path, type |-> type, refinement |-> refinement]

Thrown(path) == Failure(path, "TypeError", "none")

isObjectTypeofOnly(v) == v.kind \in {"object", "array", "null"}

\* typeof value === 'object' && value != null
isObject(v) == v.kind \in {"object", "array"}

\* string(); reading a property of null or undefined has thrown before any
\* struct sees the value
StringRun(v, path) ==
    IF v.kind = "string" THEN <<>>
    ELSE IF v = TypeError THEN <<Thrown(path)>>
    ELSE <<Failure(path, "string", "none")>>

VersionStructNoRefine(v, path, trims) == StringRun(v, path)

\* refine(string(), 'Version', (value) => validSemver(value) !== null)
VersionStruct(v, path, trims) ==
    IF StringRun(v, path) # <<>> THEN StringRun(v, path)
    ELSE IF validSemver(v, trims) # Null THEN <<>>
    ELSE <<Failure(path, "string", "Version")>>

NameStructNoSize(v, path, li) ==
    IF StringRun(v, path) # <<>> THEN StringRun(v, path)
    ELSE IF RegExpTest(v.chars, li)[1] THEN <<>>
    ELSE <<Failure(path, "string", "pattern")>>

\* size(pattern(string(), /.../u), 1, 214): the refiners run only when the
\* value is a string; the pattern's failure precedes the size's
NameStruct(v, path, li) ==
    IF StringRun(v, path) # <<>> THEN StringRun(v, path)
    ELSE (IF RegExpTest(v.chars, li)[1] THEN <<>>
          ELSE <<Failure(path, "string", "pattern")>>)
         \o
         (IF MinNameLen <= Len(v.chars) /\ Len(v.chars) <= MaxNameLen THEN <<>>
          ELSE <<Failure(path, "string", "size")>>)

\* lastIndex after NameStruct has run on v
NameStructLastIndex(v, li) ==
    IF v.kind = "string" THEN RegExpTest(v.chars, li)[2] ELSE li

NonEmptyStringAllowsEmpty(v, path) == StringRun(v, path)

\* size(string(), 1, Infinity)
NonEmptyString(v, path) ==
    IF StringRun(v, path) # <<>> THEN StringRun(v, path)
    ELSE IF Len(v.chars) >= 1 THEN <<>>
    ELSE <<Failure(path, "string", "size")>>

\* optional(size(string(), 1, Infinity))
MainStruct(v, path) ==
    IF v = Undefined THEN <<>> ELSE NonEmptyString(v, path)

RECURSIVE SetToSeq(_)
SetToSeq(S) ==
    IF S = {} THEN <<>>
    ELSE LET x == CHOOSE y \in S : TRUE IN <<x>> \o SetToSeq(S \ {x})

RECURSIVE NeverRun(_, _)
\* the never() struct superstruct's object() gives every unknown key
NeverRun(keys, path) ==
    IF keys = <<>> THEN <<>>
    ELSE <<Failure(path \o <<Head(keys)>>, "never", "none")>>
         \o NeverRun(Tail(keys), path)

RepositoryStructOpen(v, path) ==
    IF v = Undefined THEN <<>>
    ELSE IF ~isObject(v) THEN <<Failure(path, "object", "none")>>
    ELSE NonEmptyString(Get(v, "type"), path \o <<"type">>)
         \o NonEmptyString(Get(v, "url"), path \o <<"url">>)

\* optional(object({ type: size(string(), 1, Infinity),
\*                   url: size(string(), 1, Infinity) }))
RepositoryStruct(v, path) ==
    IF v = Undefined THEN <<>>
    ELSE IF ~isObject(v) THEN <<Failure(path, "object", "none")>>
    ELSE NonEmptyString(Get(v, "type"), path \o <<"type">>)
         \o NonEmptyString(Get(v, "url"), path \o <<"url">>)
         \o NeverRun(SetToSeq(OwnKeys(v) \ {"type", "url"}), path)

SchemaKeys == {"version", "name", "main", "repository"}

NpmSnapPackageJsonStructClosed(v, li, trims) ==
    IF ~isObject(v) THEN <<Failure(<<>>, "object", "none")>>
    ELSE VersionStruct(Get(v, "version"), <<"version">>, trims)
         \o NameStruct(Get(v, "name"), <<"name">>, li)
         \o MainStruct(Get(v, "main"), <<"main">>)
         \o RepositoryStruct(Get(v, "repository"), <<"repository">>)
         \o NeverRun(SetToSeq(OwnKeys(v) \ SchemaKeys), <<>>)

\* type({ version, name, main, repository }): the validator, then one run
\* per schema key in the schema's order; keys outside the schema are not
\* looked at
NpmSnapPackageJsonStruct(v, li, trims) ==
    IF ~isObject(v) THEN <<Failure(<<>>, "type", "none")>>
    ELSE VersionStruct(Get(v, "version"), <<"version">>, trims)
         \o NameStruct(Get(v, "name"), <<"name">>, li)
         \o MainStruct(Get(v, "main"), <<"main">>)
         \o RepositoryStruct(Get(v, "repository"), <<"repository">>)

\* validate() pulls the generator up to its first failure: the name's
\* regular expression is tested only when nothing failed before it
StructLastIndex(v, li, trims) ==
    IF isObject(v)
       /\ VersionStruct(Get(v, "version"), <<"version">>, trims) = <<>>
    THEN NameStructLastIndex(Get(v, "name"), li)
    ELSE li

NoMessage == [prefix |-> "", detail |-> Failure(<<>>, "none", "none")]

\* the outcome of is(value, struct) given the failures of the run
isOutcome(failures) ==
    IF failures = <<>> THEN "true"
    ELSE IF Head(failures).type = "TypeError" THEN "threw"
    ELSE "false"

isNpmSnapPackageJson(v, li, trims) ==
    isOutcome(NpmSnapPackageJsonStruct(v, li, trims))

NpmSnapFileNamesManifest == "snap.manifest.json"

NpmSnapFileNamesPackageJson == "package.json"

ErrorPrefix == "\"" \o NpmSnapFileNamesPackageJson \o "\" is invalid"

assertIsNpmSnapPackageJsonLenient(v, li, trims) ==
    LET failures == NpmSnapPackageJsonStruct(v, li, trims)
    IN IF failures = <<>> \/ Head(failures).path = <<"repository">>
       THEN [outcome |-> "returned", message |-> NoMessage]
       ELSE [outcome |-> "threw",
             message |-> [prefix |-> ErrorPrefix, detail |-> Head(failures)]]

\* assertStruct(value, struct, errorPrefix): superstruct's assert throws on
\* the first failure; the error is rethrown as `${errorPrefix}: ${message}.`
assertIsNpmSnapPackageJson(v, li, trims) ==
    LET failures == NpmSnapPackageJsonStruct(v, li, trims)
    IN IF failures = <<>>
       THEN [outcome |-> "returned", message |-> NoMessage]
       ELSE [outcome |-> "threw",
             message |-> [prefix |-> ErrorPrefix, detail |-> Head(failures)]]

(***************************************************************************)
(* Inputs                                                                  *)
(***************************************************************************)
MaxHeadLen == 4
MaxCoreLen == 5
MaxCalls == 3

SeqsUpTo(A, n) == UNION { [1..k -> A] : k \in 0..n }

Pad(n) == [i \in 1..n |-> "a"]

NameAlphabet == {"a", "A", "@", "/", "*", "."}

PadLens == {0, 1, MaxNameLen - MaxHeadLen, MaxNameLen - 1, MaxNameLen, MaxNameLen + 1}

MySnap == Str(<<"m", "y", "-", "s", "n", "a", "p">>)
ScopedMySnap == Str(<<"@", "s", "c", "o", "p", "e", "/">> \o MySnap.chars)
CapitalMySnap == Str(<<"M", "y", "-", "S", "n", "a", "p">>)

\* names: every short string over the alphabet, alone and followed by a
\* run of "a" that brings it to the length bound
NameInputs ==
    { Str(h \o Pad(n)) : h \in SeqsUpTo(NameAlphabet, MaxHeadLen), n \in PadLens }
    \cup {MySnap, ScopedMySnap, CapitalMySnap}
    \cup {Undefined, Null, Num, Bool, Arr}

VersionAlphabet == {"0", "1", "."}
VersionPrefixes == {<<>>, <<"v">>, <<" ">>, <<"=">>}
VersionSuffixes == {<<>>, <<" ">>, <<"-", "a">>, <<"+", "a">>, <<"-">>}

VersionInputs ==
    { Str(p \o c \o s) : p \in VersionPrefixes,
                         c \in SeqsUpTo(VersionAlphabet, MaxCoreLen),
                         s \in VersionSuffixes }
    \cup {Undefined, Null, Num, Bool, Arr}

Absent == [kind |-> "absent"]

Keys == {"version", "name", "main", "repository", "extra"}

\* the object with the given fields; a field given as Absent is no key of it
MkObj(ver, nm, mn, rp, ex) ==
    LET opt == [version |-> ver, name |-> nm, main |-> mn,
                repository |-> rp, extra |-> ex]
        present == { k \in Keys : opt[k] # Absent }
    IN Obj([k \in present |-> opt[k]])

V100 == Str(<<"1", ".", "0", ".", "0">>)
V10 == Str(<<"1", ".", "0">>)
Git == Str(<<"g", "i", "t">>)
Url == Str(<<"u">>)
Empty == Str(<<>>)

VersionOptions == {Absent, V100, V10, Num}
NameOptions == {Absent, Str(<<"a">>), Str(<<"A">>), Num}
MainOptions == {Absent, Undefined, Null, Num, Empty, Str(<<"i">>)}
RepositoryOptions ==
    {Absent, Undefined, Null, Num, Git, Arr,
     Obj(<<>>),
     Obj([type |-> Git]),
     Obj([url |-> Url]),
     Obj([type |-> Git, url |-> Url]),
     Obj([type |-> Empty, url |-> Url]),
     Obj([type |-> Git, url |-> Empty]),
     Obj([type |-> Num, url |-> Url]),
     Obj([type |-> Git, url |-> Url, directory |-> Str(<<"d">>)])}
ExtraOptions == {Absent, Num, Str(<<"x">>)}

NonObjects == {Undefined, Null, Num, Bool, Arr, Str(<<"a">>)}

PackageInputs ==
    { MkObj(ver, nm, mn, rp, ex) :
        ver \in VersionOptions, nm \in NameOptions, mn \in MainOptions,
        rp \in RepositoryOptions, ex \in ExtraOptions }
    \cup NonObjects

CallInputs ==
    { MkObj(ver, nm, Absent, Absent, Absent) :
        ver \in {V100, V10}, nm \in {Str(<<"a">>), Str(<<"a", "b">>), Str(<<"A">>)} }
    \cup {Null, Num}

(***************************************************************************)
(* Calls                                                                   *)
(***************************************************************************)
InitCommon ==
    /\ value = arg
    /\ op = "none"
    /\ outcome = "none"
    /\ message = NoMessage
    /\ lastIndex = 0
    /\ semverTrims \in BOOLEAN
    /\ firstResult = "none"
    /\ lastResult = "none"
    /\ calls = 0

\* isNpmSnapPackageJson(value): is() neither coerces nor masks the value
CallIsNpmSnapPackageJson ==
    /\ op' = "is"
    /\ outcome' = isNpmSnapPackageJson(value, lastIndex, semverTrims)
    /\ message' = NoMessage
    /\ lastIndex' = StructLastIndex(value, lastIndex, semverTrims)
    /\ value' = value
    /\ UNCHANGED <<arg, semverTrims, tracked, firstResult, lastResult, calls>>

\* assertIsNpmSnapPackageJson(value)
CallAssertIsNpmSnapPackageJson ==
    /\ op' = "assert"
    /\ outcome' = assertIsNpmSnapPackageJson(value, lastIndex, semverTrims).outcome
    /\ message' = assertIsNpmSnapPackageJson(value, lastIndex, semverTrims).message
    /\ lastIndex' = StructLastIndex(value, lastIndex, semverTrims)
    /\ value' = value
    /\ UNCHANGED <<arg, semverTrims, tracked, firstResult, lastResult, calls>>

Init == arg \in PackageInputs /\ tracked = Undefined /\ InitCommon

Next == CallIsNpmSnapPackageJson \/ CallAssertIsNpmSnapPackageJson

Spec == Init /\ [][Next]_vars

\* is(value, NameStruct)
CheckName ==
    /\ op' = "name"
    /\ outcome' = isOutcome(NameStruct(value, <<>>, lastIndex))
    /\ message' = NoMessage
    /\ lastIndex' = NameStructLastIndex(value, lastIndex)
    /\ value' = value
    /\ UNCHANGED <<arg, semverTrims, tracked, firstResult, lastResult, calls>>

InitName == arg \in NameInputs /\ tracked = Undefined /\ InitCommon

NextName == CheckName

SpecName == InitName /\ [][NextName]_vars

\* is(value, VersionStruct)
CheckVersion ==
    /\ op' = "version"
    /\ outcome' = isOutcome(VersionStruct(value, <<>>, semverTrims))
    /\ message' = NoMessage
    /\ value' = value
    /\ UNCHANGED <<arg, lastIndex, semverTrims, tracked, firstResult, lastResult, calls>>

InitVersion == arg \in VersionInputs /\ tracked = Undefined /\ InitCommon

NextVersion == CheckVersion

SpecVersion == InitVersion /\ [][NextVersion]_vars

\* a caller that validates one value after another, in any order
NextInput(v) ==
    /\ arg' = v
    /\ value' = v
    /\ UNCHANGED <<semverTrims, tracked>>

IsCall ==
    \E v \in CallInputs :
        /\ v = tracked => calls < MaxCalls
        /\ calls' = IF v = tracked THEN calls + 1 ELSE calls
        /\ NextInput(v)
        /\ op' = "is"
        /\ outcome' = isNpmSnapPackageJson(v, lastIndex, semverTrims)
        /\ message' = NoMessage
        /\ lastIndex' = StructLastIndex(v, lastIndex, semverTrims)
        /\ firstResult' = IF v = tracked /\ firstResult = "none"
                          THEN outcome' ELSE firstResult
        /\ lastResult' = IF v = tracked THEN outcome' ELSE lastResult

AssertCall ==
    \E v \in CallInputs :
        /\ NextInput(v)
        /\ op' = "assert"
        /\ outcome' = assertIsNpmSnapPackageJson(v, lastIndex, semverTrims).outcome
        /\ message' = assertIsNpmSnapPackageJson(v, lastIndex, semverTrims).message
        /\ lastIndex' = StructLastIndex(v, lastIndex, semverTrims)
        /\ UNCHANGED <<firstResult, lastResult, calls>>

InitCalls == arg = Undefined /\ tracked \in CallInputs /\ InitCommon

NextCalls == IsCall \/ AssertCall

SpecCalls == InitCalls /\ [][NextCalls]_vars

(***************************************************************************)
(* Properties                                                              *)
(***************************************************************************)
IsNonEmptyString(x) == x.kind = "string" /\ Len(x.chars) >= 1

IsValidVersion(x) == x.kind = "string" /\ validSemver(x, semverTrims) # Null

IsValidName(x) ==
    /\ x.kind = "string"
    /\ NamePattern(x.chars)
    /\ MinNameLen <= Len(x.chars) /\ Len(x.chars) <= MaxNameLen

HasTypeAndUrl(x) ==
    /\ x.kind \in {"object", "array"}
    /\ IsNonEmptyString(Get(x, "type"))
    /\ IsNonEmptyString(Get(x, "url"))

\* C1 as stated: isNpmSnapPackageJson(v) is true exactly when v is an
\* object, v.version is a valid version, v.name a valid name, v.main absent
\* or a non-empty string, and v.repository absent or an object whose type
\* and url are non-empty strings.
C1_AsStated ==
    op = "is" =>
        (outcome = "true" <=>
            /\ arg.kind \in {"object", "array"}
            /\ IsValidVersion(Get(arg, "version"))
            /\ IsValidName(Get(arg, "name"))
            /\ ("main" \notin OwnKeys(arg) \/ IsNonEmptyString(Get(arg, "main")))
            /\ ("repository" \notin OwnKeys(arg)
                \/ HasTypeAndUrl(Get(arg, "repository"))))

\* C1 amended: as C1, with "absent" read as absent or undefined, and with
\* the repository object carrying no key other than type and url. An object
\* without name, one with main = "" and one with repository = {type: "git"}
\* are rejected.
C1_PackageJsonIff ==
    op = "is" =>
        /\ (outcome = "true" <=>
              /\ arg.kind \in {"object", "array"}
              /\ IsValidVersion(Get(arg, "version"))
              /\ IsValidName(Get(arg, "name"))
              /\ (Get(arg, "main") = Undefined
                  \/ IsNonEmptyString(Get(arg, "main")))
              /\ (Get(arg, "repository") = Undefined
                  \/ (/\ HasTypeAndUrl(Get(arg, "repository"))
                      /\ OwnKeys(Get(arg, "repository")) \subseteq {"type", "url"})))
        /\ ("name" \notin OwnKeys(arg) => outcome = "false")
        /\ (Get(arg, "main") = Empty => outcome = "false")
        /\ (Get(arg, "repository") = Obj([type |-> Git]) => outcome = "false")

C1_Witness ==
    /\ op = "is"
    /\ outcome = "true"
    /\ IsNonEmptyString(Get(arg, "main"))
    /\ HasTypeAndUrl(Get(arg, "repository"))

Without(v, k) ==
    IF v.kind = "object"
    THEN Obj([x \in DOMAIN v.fields \ {k} |-> v.fields[x]])
    ELSE v

\* C2: a key outside the schema never changes the outcome of the
\* validation: the object with the key is accepted exactly when the object
\* without it is, and it still carries the key and its value afterwards.
C2_UnknownKeysIgnored ==
    (op = "is" /\ "extra" \in OwnKeys(arg)) =>
        /\ outcome = isNpmSnapPackageJson(Without(arg, "extra"), 0, semverTrims)
        /\ "extra" \in OwnKeys(value)
        /\ Get(value, "extra") = Get(arg, "extra")
        /\ value = arg

C2_Witness ==
    op = "is" /\ "extra" \in OwnKeys(arg) /\ outcome = "true"

\* C3: assertIsNpmSnapPackageJson(v) returns, leaving v and everything else
\* alone, exactly when isNpmSnapPackageJson(v) is true, and throws exactly
\* when it is false.
C3_AssertAgreesWithIs ==
    op = "assert" =>
        /\ outcome \in {"returned", "threw"}
        /\ (outcome = "returned" <=>
              isNpmSnapPackageJson(arg, 0, semverTrims) = "true")
        /\ (outcome = "threw" <=>
              isNpmSnapPackageJson(arg, 0, semverTrims) = "false")
        /\ (outcome = "returned" => (value = arg /\ message = NoMessage))
        /\ lastIndex = 0

C3_Witness ==
    op = "assert" /\ outcome = "returned" /\ arg.kind = "object"

FailureTypes == {"type", "object", "string", "never"}

\* C4: whatever sub-check failed, the error assertIsNpmSnapPackageJson
\* throws starts with "package.json" is invalid (the file name being
\* NpmSnapFileNames.PackageJson), followed by the detail of the failure.
C4_ErrorMessage ==
    (op = "assert" /\ outcome = "threw") =>
        /\ NpmSnapFileNamesPackageJson = "package.json"
        /\ message.prefix = "\"package.json\" is invalid"
        /\ message.detail.type \in FailureTypes
        /\ message.detail = Head(NpmSnapPackageJsonStruct(arg, 0, semverTrims))

C4_Witness ==
    /\ op = "assert"
    /\ outcome = "threw"
    /\ message.detail.refinement = "pattern"
    /\ message.prefix = "\"package.json\" is invalid"

\* C5: NameStruct accepts a value exactly when it is a string of length 1
\* to 214 the whole of which matches the name grammar: a matching string of
\* length 214 is accepted, one of length 215 or more rejected, the empty
\* string rejected, and so is a string with an upper-case letter.
C5_NameIff ==
    op = "name" =>
        /\ (outcome = "true" <=>
              /\ arg.kind = "string"
              /\ 1 <= Len(arg.chars) /\ Len(arg.chars) <= 214
              /\ NamePattern(arg.chars))
        /\ (arg = Str(Pad(214)) => outcome = "true")
        /\ (arg = Str(<<"@", "a", "/", "a">> \o Pad(210)) => outcome = "true")
        /\ ((arg.kind = "string" /\ Len(arg.chars) >= 215) => outcome = "false")
        /\ (arg = Empty => outcome = "false")
        /\ (arg \in {MySnap, ScopedMySnap} => outcome = "true")
        /\ (arg = CapitalMySnap => outcome = "false")
        /\ ((arg.kind = "string" /\ Len(arg.chars) >= 1
             /\ (arg.chars[1] \in {".", "/", "*"}
                 \/ arg.chars[Len(arg.chars)] \in {"@", "/", "*"}))
              => outcome = "false")
        /\ ((arg.kind = "string" /\ \E i \in 1..Len(arg.chars) :
                                        arg.chars[i] \in Upper)
              => outcome = "false")
        /\ (arg.kind # "string" => outcome = "false")

C5_Witness ==
    /\ op = "name"
    /\ outcome = "true"
    /\ Len(arg.chars) = MaxNameLen
    /\ arg.chars[1] = "@"

\* the semver 2.0 grammar: MAJOR.MINOR.PATCH, then an optional -prerelease
\* and an optional +build, and nothing before or after
SemverGrammar(s) == \E m \in FullMatches(s) : m[1] = 0

C7_IsNeverRaises ==
    op = "is" =>
        /\ outcome \in {"true", "false"}
        /\ (arg.kind # "object" => outcome = "false")
        /\ (Get(arg, "version").kind # "string" => outcome = "false")
        /\ (Get(arg, "name").kind # "string" => outcome = "false")

C7_Witness ==
    op = "is" /\ arg = Null /\ outcome = "false"

\* C8: whatever calls came before, isNpmSnapPackageJson(v) returns what its
\* first call on v returned, and no call leaves state behind in the name's
\* regular expression.
C8_Deterministic ==
    /\ (firstResult # "none" => lastResult = firstResult)
    /\ lastIndex = 0
    /\ ((op = "is" /\ arg = tracked) => outcome = firstResult)

C8_Witness ==
    /\ calls >= 2
    /\ firstResult = "true"
    /\ lastResult = "true"
    /\ op = "assert"
    /\ arg # tracked

\* index i of s lies in the scope segment: after the leading @ and before
\* the first /
InScope(s, i) ==
    /\ Len(s) >= 1 /\ s[1] = "@"
    /\ i >= 2
    /\ \E j \in (i+1)..Len(s) : s[j] = "/"
    /\ \A m \in 1..i : s[m] # "/"

NameAccepts(s) == isOutcome(NameStruct(Str(s), <<>>, 0)) = "true"

\* C9 as stated: * is permitted only as the first character of the scope
\* segment.
C9_AsStated ==
    (op = "name" /\ outcome = "true") =>
        \A i \in 1..Len(arg.chars) :
            arg.chars[i] = "*" => (i = 2 /\ arg.chars[1] = "@")

\* C9 amended: * is permitted in the scope segment, as its first character
\* and as any later one, and nowhere in the name segment: a name with * in
\* its scope is accepted when it is otherwise valid, and every string with
\* * in the name segment is rejected, with or without a scope.
C9_StarOnlyInScope ==
    (op = "name" /\ arg.kind = "string") =>
        /\ (outcome = "true" =>
              \A i \in 1..Len(arg.chars) :
                  arg.chars[i] = "*" => InScope(arg.chars, i))
        /\ \A i \in 1..Len(arg.chars) :
              (/\ arg.chars[i] = "*"
               /\ InScope(arg.chars, i)
               /\ NameAccepts([arg.chars EXCEPT ![i] = "a"]))
              => outcome = "true"

C9_Witness ==
    /\ op = "name"
    /\ outcome = "true"
    /\ Len(arg.chars) >= 4
    /\ arg.chars[2] = "*"

HasExtraRepositoryKey(v) ==
    /\ Get(v, "repository").kind = "object"
    /\ ~ (OwnKeys(Get(v, "repository")) \subseteq {"type", "url"})

\* C10: the repository field is a closed object: when it carries a key
\* other than type and url, isNpmSnapPackageJson returns false and
\* assertIsNpmSnapPackageJson throws, all other fields being valid or not.
C10_RepositoryClosed ==
    HasExtraRepositoryKey(arg) =>
        /\ (op = "is" => outcome = "false")
        /\ (op = "assert" => outcome = "threw")

C10_Witness ==
    /\ op = "assert"
    /\ outcome = "threw"
    /\ HasExtraRepositoryKey(arg)
    /\ message.detail = Failure(<<"repository", "directory">>, "never", "none")

====
